---- MODULE Spec2Model ----
(***************************************************************************)
(* sjtu::map<Key, T, Compare> (src/src/map.hpp): a red-black tree of       *)
(* heap-allocated nodes, its cursors (iterator / const_iterator) and the   *)
(* public operations of the container.                                     *)
(*                                                                         *)
(* Key is modelled by the integers 1..MaxKey under Compare = std::less,    *)
(* T by the two values of Vals.  Nodes live in a heap of cells shared by   *)
(* the two map objects "A" and "B"; a Node* is a cell address, nullptr is  *)
(* Null.                                                                   *)
(***************************************************************************)
EXTENDS Integers, Sequences, FiniteSets, TLC

\* ------------------------------------------------------------------ bounds
\* Keys are 1..MaxKey in the one-map specification Spec.
MaxKey == 6
\* Keys are 1..PairKey in the two-map specification SpecPair.
PairKey == 3
\* Keys are 1..ValKey in the specification SpecVal, whose values vary.
ValKey == 4
\* Number of counted operations in the specification SpecCount.
MaxOps == 5
\* Keys are 1..DeepKey in the specification SpecDeep, whose trees are tall
\* enough for each fix-up loop to go round twice.
DeepKey == 10

\* ------------------------------------------------------- program constants
Null == 0
DefaultVal == "d"
Vals == {DefaultVal, "v"}
Maps == {"A", "B"}
NoMap == "none"

Keys == 1..MaxKey
\* One cell per (map, key): the heap never runs out.
NumCells == 2 * MaxKey
Addr == 1..NumCells

\* ------------------------------------------------------------------- state
VARIABLES
  heap,        \* cell -> Node, or Free
  root,        \* map -> Node* root
  node_count,  \* map -> size_t node_count
  alive,       \* the map objects that are constructed and not yet destroyed
  it,          \* the cursor the client holds: [owner, cur]
  last,        \* outcome of the last operation: [op, err, ret, fix]
  ref,         \* the reference: map -> the finite function key -> value it holds
  ins,         \* number of insert calls on "A" that returned inserted = true
  ers,         \* number of erase calls on "A" that completed without error
  made,        \* entries of "A" created by operator[] or by operator=
  dropped,     \* entries of "A" destroyed by clear() or by operator=
  ops          \* number of counted operations (SpecCount)

vars == <<heap, root, node_count, alive, it, last, ref, ins, ers, made, dropped, ops>>
tree == <<heap, root, node_count>>
ghost == <<ins, ers, made, dropped, ops>>

\* -------------------------------------------------------------------- Node
Free == [key |-> 0, val |-> DefaultVal, color |-> FALSE,
         left |-> Null, right |-> Null, parent |-> Null, used |-> FALSE]

\* Node(const value_type &d): red, no links.
Node(k, v) == [key |-> k, val |-> v, color |-> TRUE,
               left |-> Null, right |-> Null, parent |-> Null, used |-> TRUE]

\* Compare = std::less<Key>
comp(a, b) == a < b

eq_key(a, b) == ~comp(a, b) /\ ~comp(b, a)

is_red(h, x) == x # Null /\ h[x].color
is_black(h, x) == x = Null \/ ~h[x].color

\* The allocator: operator new returns an unused cell.  Each (map, key) has a
\* cell of its own, taken when unused; otherwise any unused cell.
Cell(m, k) == IF m = "A" THEN k ELSE MaxKey + k

Alloc(h, m, k) ==
  IF ~h[Cell(m, k)].used THEN Cell(m, k)
  ELSE IF \E a \in Addr : ~h[a].used THEN CHOOSE a \in Addr : ~h[a].used
  ELSE Null

RECURSIVE min_node(_, _)
min_node(h, x) ==
  IF x = Null THEN Null
  ELSE IF h[x].left # Null THEN min_node(h, h[x].left) ELSE x

RECURSIVE max_node(_, _)
max_node(h, x) ==
  IF x = Null THEN Null
  ELSE IF h[x].right # Null THEN max_node(h, h[x].right) ELSE x

RECURSIVE find_from(_, _, _)
find_from(h, cur, key) ==
  IF cur = Null THEN Null
  ELSE IF comp(key, h[cur].key) THEN find_from(h, h[cur].left, key)
  ELSE IF comp(h[cur].key, key) THEN find_from(h, h[cur].right, key)
  ELSE cur

\* A faulty variant: the search stops at the root's children.
find_node_shallow(h, r, key) ==
  IF r = Null THEN Null
  ELSE IF comp(key, h[r].key)
  THEN (IF h[r].left # Null /\ eq_key(h[h[r].left].key, key) THEN h[r].left ELSE Null)
  ELSE IF comp(h[r].key, key)
  THEN (IF h[r].right # Null /\ eq_key(h[h[r].right].key, key) THEN h[r].right ELSE Null)
  ELSE r

find_node(h, r, key) == find_from(h, r, key)

\* A tree under operation: M = [h, root, cnt, ub, spin].  ub records a
\* dereference of nullptr (or an exhausted heap) inside the operation, spin a
\* fix-up loop that did not exit within LoopCap iterations.
\* What an operation's fix-up did: rot rotations and iter loop iterations;
\* lax, an iteration of erase_fix met x_parent or the sibling w null; moved, a
\* rotation changed the in-order key sequence; linked, a node was allocated;
\* at, the depth of the node the latest iteration started from (z in
\* insert_fix, x in erase_fix); stall, an iteration started no nearer to the
\* root than the one before it.
NoFix ==
  [rot |-> 0, iter |-> 0, lax |-> FALSE, moved |-> FALSE, linked |-> FALSE,
   at |-> 0, stall |-> FALSE]

Mk(h, r, c) ==
  [h |-> h, root |-> r, cnt |-> c, ub |-> FALSE, spin |-> FALSE, fix |-> NoFix]

\* The keys of the subtree at x, by child links, left to right.
RECURSIVE InOrder(_, _)
InOrder(h, x) ==
  IF x = Null THEN <<>>
  ELSE InOrder(h, h[x].left) \o <<h[x].key>> \o InOrder(h, h[x].right)

\* R is M after one rotation.
rotated(M, R) ==
  [R EXCEPT !.fix.rot = @ + 1,
            !.fix.moved = @ \/ InOrder(M.h, M.root) # InOrder(R.h, R.root)]

Undefined(M) == [M EXCEPT !.ub = TRUE]

\* a->f = v
Put(M, a, f, v) == IF a = Null THEN Undefined(M) ELSE [M EXCEPT !.h[a][f] = v]

\* if (a) a->f = v
PutIf(M, a, f, v) == IF a = Null THEN M ELSE [M EXCEPT !.h[a][f] = v]

\* a ? a->left : nullptr, and the like
Left(M, a) == IF a = Null THEN Null ELSE M.h[a].left
Right(M, a) == IF a = Null THEN Null ELSE M.h[a].right
Parent(M, a) == IF a = Null THEN Null ELSE M.h[a].parent

\* left_rotate(x) with y = x->right: the statements of lines 67-68, 69-72, 73-74.
left_rotate_a(M, x, y) == PutIf(Put(M, x, "right", M.h[y].left), M.h[y].left, "parent", x)

left_rotate_b(M, x, y) ==
  IF M.h[x].parent = Null THEN [M EXCEPT !.h[y].parent = Null, !.root = y]
  ELSE IF x = M.h[M.h[x].parent].left
  THEN [M EXCEPT !.h[y].parent = M.h[x].parent, !.h[M.h[x].parent].left = y]
  ELSE [M EXCEPT !.h[y].parent = M.h[x].parent, !.h[M.h[x].parent].right = y]

left_rotate_c(M, x, y) == [M EXCEPT !.h[y].left = x, !.h[x].parent = y]

left_rotate(M, x) ==
  IF M.h[x].right = Null THEN Undefined(M)
  ELSE rotated(M, left_rotate_c(
                    left_rotate_b(left_rotate_a(M, x, M.h[x].right), x, M.h[x].right),
                    x, M.h[x].right))

\* right_rotate(x) with y = x->left: lines 79-80, 81-84, 85-86.
right_rotate_a(M, x, y) == PutIf(Put(M, x, "left", M.h[y].right), M.h[y].right, "parent", x)

right_rotate_b(M, x, y) ==
  IF M.h[x].parent = Null THEN [M EXCEPT !.h[y].parent = Null, !.root = y]
  ELSE IF x = M.h[M.h[x].parent].right
  THEN [M EXCEPT !.h[y].parent = M.h[x].parent, !.h[M.h[x].parent].right = y]
  ELSE [M EXCEPT !.h[y].parent = M.h[x].parent, !.h[M.h[x].parent].left = y]

right_rotate_c(M, x, y) == [M EXCEPT !.h[y].right = x, !.h[x].parent = y]

right_rotate(M, x) ==
  IF M.h[x].left = Null THEN Undefined(M)
  ELSE rotated(M, right_rotate_c(
                    right_rotate_b(right_rotate_a(M, x, M.h[x].left), x, M.h[x].left),
                    x, M.h[x].left))

\* Iterations allowed to a fix-up loop before it is reported as not exiting.
LoopCap == 2 * NumCells

\* The number of nodes on the parent chain from x up, x included.
RECURSIVE Rise(_, _, _)
Rise(h, x, n) == IF x = Null \/ n = 0 THEN 0 ELSE 1 + Rise(h, h[x].parent, n - 1)

Depth(h, x) == Rise(h, x, NumCells)

\* One more iteration of a fix-up loop, started from a node at depth d.
visit(M, d) ==
  [M EXCEPT !.fix.iter = @ + 1,
            !.fix.stall = @ \/ (M.fix.iter > 0 /\ d >= M.fix.at),
            !.fix.at = d]

\* if (root) root->color = false
root_black(M) == PutIf(M, M.root, "color", FALSE)

RECURSIVE insert_fix_loop(_, _, _)

\* p->color = false; u->color = false; g->color = true; z = g
insert_fix_recolor(M, p, u, g, n) ==
  insert_fix_loop([M EXCEPT !.h[p].color = FALSE, !.h[u].color = FALSE, !.h[g].color = TRUE],
                  g, n)

\* Lines 98-99 past the inner rotation, with p = z->parent and g = p->parent:
\* p->color = false; g->color = true; right_rotate(g)
insert_fix_outer_left(M, z, n) ==
  IF M.ub \/ Parent(M, z) = Null \/ Parent(M, Parent(M, z)) = Null THEN Undefined(M)
  ELSE insert_fix_loop(
         right_rotate(
           [M EXCEPT !.h[M.h[z].parent].color = FALSE,
                     !.h[M.h[M.h[z].parent].parent].color = TRUE],
           M.h[M.h[z].parent].parent),
         z, n)

\* Lines 106-107, the mirror
insert_fix_outer_right(M, z, n) ==
  IF M.ub \/ Parent(M, z) = Null \/ Parent(M, Parent(M, z)) = Null THEN Undefined(M)
  ELSE insert_fix_loop(
         left_rotate(
           [M EXCEPT !.h[M.h[z].parent].color = FALSE,
                     !.h[M.h[M.h[z].parent].parent].color = TRUE],
           M.h[M.h[z].parent].parent),
         z, n)

\* A faulty variant: the inner rotation of the left-hand side turns the way of
\* the outer one.
insert_fix_step_same_turn(M, z, p, g, n) ==
  IF g = Null THEN Undefined(M)
  ELSE IF p = M.h[g].left THEN
    IF is_red(M.h, M.h[g].right) THEN insert_fix_recolor(M, p, M.h[g].right, g, n)
    ELSE IF z = M.h[p].right THEN insert_fix_outer_left(right_rotate(M, p), p, n)
    ELSE insert_fix_outer_left(M, z, n)
  ELSE
    IF is_red(M.h, M.h[g].left) THEN insert_fix_recolor(M, p, M.h[g].left, g, n)
    ELSE IF z = M.h[p].left THEN insert_fix_outer_right(right_rotate(M, p), p, n)
    ELSE insert_fix_outer_right(M, z, n)

\* One iteration with p = z->parent red and g = p->parent.
insert_fix_step(M, z, p, g, n) ==
  IF g = Null THEN Undefined(M)
  ELSE IF p = M.h[g].left THEN
    IF is_red(M.h, M.h[g].right) THEN insert_fix_recolor(M, p, M.h[g].right, g, n)
    ELSE IF z = M.h[p].right THEN insert_fix_outer_left(left_rotate(M, p), p, n)
    ELSE insert_fix_outer_left(M, z, n)
  ELSE
    IF is_red(M.h, M.h[g].left) THEN insert_fix_recolor(M, p, M.h[g].left, g, n)
    ELSE IF z = M.h[p].left THEN insert_fix_outer_right(right_rotate(M, p), p, n)
    ELSE insert_fix_outer_right(M, z, n)

insert_fix_loop(M, z, n) ==
  IF M.ub \/ M.spin THEN M
  ELSE IF ~(M.h[z].parent # Null /\ M.h[M.h[z].parent].color) THEN M
  ELSE IF n = 0 THEN [M EXCEPT !.spin = TRUE]
  ELSE insert_fix_step(visit(M, Depth(M.h, z)),
                       z, M.h[z].parent, M.h[M.h[z].parent].parent, n - 1)

insert_fix(M, z) == root_black(insert_fix_loop(M, z, LoopCap))

transplant_a(M, u, v) ==
  IF M.h[u].parent = Null THEN [M EXCEPT !.root = v]
  ELSE IF u = M.h[M.h[u].parent].left THEN [M EXCEPT !.h[M.h[u].parent].left = v]
  ELSE [M EXCEPT !.h[M.h[u].parent].right = v]

\* A faulty variant: v keeps the parent it had.
transplant_b_keep(M, u, v) == M

transplant_b(M, u, v) == PutIf(M, v, "parent", M.h[u].parent)

transplant(M, u, v) == transplant_b(transplant_a(M, u, v), u, v)

RECURSIVE erase_fix_loop(_, _, _, _)

\* x = root; x_parent = nullptr
erase_fix_to_root(M, n) == erase_fix_loop(M, M.root, Null, n)

\* case 1, x on the left: w = x_parent->right is red
erase_fix_left_1(M, x_parent) ==
  IF is_red(M.h, Right(M, x_parent))
  THEN left_rotate(
         [M EXCEPT !.h[M.h[x_parent].right].color = FALSE, !.h[x_parent].color = TRUE],
         x_parent)
  ELSE M

\* case 3, x on the left: w's right child is black (w = x_parent->right)
erase_fix_left_3(M, x_parent) ==
  IF is_black(M.h, Right(M, Right(M, x_parent)))
  THEN IF Right(M, x_parent) = Null
       THEN M
       ELSE right_rotate(
              Put(PutIf(M, Left(M, Right(M, x_parent)), "color", FALSE),
                  Right(M, x_parent), "color", TRUE),
              Right(M, x_parent))
  ELSE M

\* case 4, x on the left (w = x_parent->right): lines 140-145
erase_fix_left_4a(M, x_parent) ==
  PutIf(M, Right(M, x_parent), "color",
        IF x_parent # Null THEN M.h[x_parent].color ELSE FALSE)

erase_fix_left_4b(M, x_parent) ==
  PutIf(PutIf(M, x_parent, "color", FALSE), Right(M, Right(M, x_parent)), "color", FALSE)

erase_fix_left_4(M, x_parent, n) ==
  erase_fix_to_root(
    IF x_parent # Null
    THEN left_rotate(erase_fix_left_4b(erase_fix_left_4a(M, x_parent), x_parent), x_parent)
    ELSE erase_fix_left_4b(erase_fix_left_4a(M, x_parent), x_parent),
    n)

\* A faulty variant: case 2 recolours w and goes round again from the same x.
erase_fix_left_2_stay(M, x_parent, n) ==
  IF M.ub THEN M
  ELSE IF /\ is_black(M.h, Left(M, Right(M, x_parent)))
          /\ is_black(M.h, Right(M, Right(M, x_parent)))
  THEN erase_fix_loop(PutIf(M, Right(M, x_parent), "color", TRUE),
                      Left(M, x_parent), x_parent, n)
  ELSE erase_fix_left_4(erase_fix_left_3(M, x_parent), x_parent, n)

\* Past case 1, x on the left: case 2, or cases 3 and 4.
erase_fix_left_2(M, x_parent, n) ==
  IF M.ub THEN M
  ELSE IF /\ is_black(M.h, Left(M, Right(M, x_parent)))
          /\ is_black(M.h, Right(M, Right(M, x_parent)))
  THEN erase_fix_loop(PutIf(M, Right(M, x_parent), "color", TRUE),
                      x_parent, Parent(M, x_parent), n)
  ELSE erase_fix_left_4(erase_fix_left_3(M, x_parent), x_parent, n)

\* The mirror: x on the right, w = x_parent->left.
erase_fix_right_1(M, x_parent) ==
  IF is_red(M.h, Left(M, x_parent))
  THEN right_rotate(
         [M EXCEPT !.h[M.h[x_parent].left].color = FALSE, !.h[x_parent].color = TRUE],
         x_parent)
  ELSE M

erase_fix_right_3(M, x_parent) ==
  IF is_black(M.h, Left(M, Left(M, x_parent)))
  THEN IF Left(M, x_parent) = Null
       THEN M
       ELSE left_rotate(
              Put(PutIf(M, Right(M, Left(M, x_parent)), "color", FALSE),
                  Left(M, x_parent), "color", TRUE),
              Left(M, x_parent))
  ELSE M

erase_fix_right_4a(M, x_parent) ==
  PutIf(M, Left(M, x_parent), "color",
        IF x_parent # Null THEN M.h[x_parent].color ELSE FALSE)

\* A faulty variant: the mirrored case 4 blackens w's near child, as the left-hand
\* side's text would read if copied without mirroring.
erase_fix_right_4b_near(M, x_parent) ==
  PutIf(PutIf(M, x_parent, "color", FALSE), Right(M, Left(M, x_parent)), "color", FALSE)

erase_fix_right_4b(M, x_parent) ==
  PutIf(PutIf(M, x_parent, "color", FALSE), Left(M, Left(M, x_parent)), "color", FALSE)

erase_fix_right_4(M, x_parent, n) ==
  erase_fix_to_root(
    IF x_parent # Null
    THEN right_rotate(erase_fix_right_4b(erase_fix_right_4a(M, x_parent), x_parent), x_parent)
    ELSE erase_fix_right_4b(erase_fix_right_4a(M, x_parent), x_parent),
    n)

erase_fix_right_2(M, x_parent, n) ==
  IF M.ub THEN M
  ELSE IF /\ is_black(M.h, Right(M, Left(M, x_parent)))
          /\ is_black(M.h, Left(M, Left(M, x_parent)))
  THEN erase_fix_loop(PutIf(M, Left(M, x_parent), "color", TRUE),
                      x_parent, Parent(M, x_parent), n)
  ELSE erase_fix_right_4(erase_fix_right_3(M, x_parent), x_parent, n)

\* One more iteration of erase_fix, with this x_parent.
enter(M, x_parent) ==
  [visit(M, Depth(M.h, x_parent) + 1) EXCEPT !.fix.lax = @ \/ x_parent = Null]

\* Past case 1, w is x_parent's child on the side named.
sibling_right(M, x_parent) ==
  IF Right(M, x_parent) = Null /\ ~M.ub THEN [M EXCEPT !.fix.lax = TRUE] ELSE M

sibling_left(M, x_parent) ==
  IF Left(M, x_parent) = Null /\ ~M.ub THEN [M EXCEPT !.fix.lax = TRUE] ELSE M

erase_fix_loop(M, x, x_parent, n) ==
  IF M.ub \/ M.spin THEN M
  ELSE IF ~(x # M.root /\ is_black(M.h, x)) THEN PutIf(M, x, "color", FALSE)
  ELSE IF n = 0 THEN [M EXCEPT !.spin = TRUE]
  ELSE IF x = Left(M, x_parent)
  THEN erase_fix_left_2(
         sibling_right(erase_fix_left_1(enter(M, x_parent), x_parent), x_parent),
         x_parent, n - 1)
  ELSE erase_fix_right_2(
         sibling_left(erase_fix_right_1(enter(M, x_parent), x_parent), x_parent),
         x_parent, n - 1)

erase_fix(M, x, x_parent) == erase_fix_loop(M, x, x_parent, LoopCap)

\* clear_node: post-order delete of the subtree at x.
RECURSIVE clear_node(_, _)
clear_node(h, x) ==
  IF x = Null THEN h
  ELSE [clear_node(clear_node(h, h[x].left), h[x].right) EXCEPT ![x] = Free]

\* clone_subtree(parent, other) of map m: [M, x], x the clone's root.
RECURSIVE clone_subtree(_, _, _, _)

\* A faulty variant: the clone is not counted.
clone_done_uncounted(R, x) == [M |-> [R.M EXCEPT !.h[x].right = R.x], x |-> x]

\* ++node_count; return x
clone_done(R, x) ==
  [M |-> [R.M EXCEPT !.h[x].right = R.x, !.cnt = R.M.cnt + 1], x |-> x]

\* x->left = (the clone L); x->right = clone_subtree(x, other->right)
clone_right(L, m, x, other) ==
  clone_done(clone_subtree([L.M EXCEPT !.h[x].left = L.x], m, x, L.M.h[other].right), x)

\* A faulty variant: the clone keeps the colour a new node is given.
clone_node_red(M, m, parent, other, x) ==
  IF x = Null THEN [M |-> Undefined(M), x |-> Null]
  ELSE clone_right(
         clone_subtree(
           [M EXCEPT !.h[x] = [Node(M.h[other].key, M.h[other].val)
                                 EXCEPT !.parent = parent]],
           m, x, M.h[other].left),
         m, x, other)

\* x = new Node(other->data); x->color = other->color; x->parent = parent
clone_node(M, m, parent, other, x) ==
  IF x = Null THEN [M |-> Undefined(M), x |-> Null]
  ELSE clone_right(
         clone_subtree(
           [M EXCEPT !.h[x] = [Node(M.h[other].key, M.h[other].val)
                                 EXCEPT !.color = M.h[other].color, !.parent = parent]],
           m, x, M.h[other].left),
         m, x, other)

clone_subtree(M, m, parent, other) ==
  IF other = Null \/ M.ub THEN [M |-> M, x |-> Null]
  ELSE clone_node(M, m, parent, other, Alloc(M.h, m, M.h[other].key))

\* The descent shared by insert and operator[]: the node holding key (or
\* Null) and the last node visited.
RECURSIVE descend(_, _, _, _)
descend(h, cur, parent, key) ==
  IF cur = Null THEN [found |-> Null, parent |-> parent]
  ELSE IF comp(key, h[cur].key) THEN descend(h, h[cur].left, cur, key)
  ELSE IF comp(h[cur].key, key) THEN descend(h, h[cur].right, cur, key)
  ELSE [found |-> cur, parent |-> cur]

\* A faulty variant: the new node is linked on the other side of its parent.
link_node_swapped(M, z, parent, key, v) ==
  IF z = Null THEN [M |-> Undefined(M), cur |-> Null]
  ELSE [M |-> insert_fix(
                IF parent = Null
                THEN [M EXCEPT !.h[z] = [Node(key, v) EXCEPT !.parent = parent],
                               !.root = z, !.cnt = M.cnt + 1]
                ELSE IF comp(key, M.h[parent].key)
                THEN [M EXCEPT !.h[z] = [Node(key, v) EXCEPT !.parent = parent],
                               !.h[parent].right = z, !.cnt = M.cnt + 1]
                ELSE [M EXCEPT !.h[z] = [Node(key, v) EXCEPT !.parent = parent],
                               !.h[parent].left = z, !.cnt = M.cnt + 1],
                z),
        cur |-> z]

\* z = new Node(value); z->parent = parent; link; ++node_count; insert_fix(z)
link_node(M, z, parent, key, v) ==
  IF z = Null THEN [M |-> Undefined(M), cur |-> Null]
  ELSE [M |-> insert_fix(
                IF parent = Null
                THEN [M EXCEPT !.h[z] = [Node(key, v) EXCEPT !.parent = parent],
                               !.root = z, !.cnt = M.cnt + 1]
                ELSE IF comp(key, M.h[parent].key)
                THEN [M EXCEPT !.h[z] = [Node(key, v) EXCEPT !.parent = parent],
                               !.h[parent].left = z, !.cnt = M.cnt + 1]
                ELSE [M EXCEPT !.h[z] = [Node(key, v) EXCEPT !.parent = parent],
                               !.h[parent].right = z, !.cnt = M.cnt + 1],
                z),
        cur |-> z]

link_new(M, m, parent, key, v) ==
  link_node([M EXCEPT !.fix.linked = TRUE], Alloc(M.h, m, key), parent, key, v)

insert_new(r) == [M |-> r.M, cur |-> r.cur, inserted |-> TRUE]

\* A faulty variant: insert on a stored key assigns the value.
insert_found_assign(M, m, d, key, v) ==
  IF d.found # Null THEN [M |-> Put(M, d.found, "val", v), cur |-> d.found, inserted |-> FALSE]
  ELSE insert_new(link_new(M, m, d.parent, key, v))

insert_found(M, m, d, key, v) ==
  IF d.found # Null THEN [M |-> M, cur |-> d.found, inserted |-> FALSE]
  ELSE insert_new(link_new(M, m, d.parent, key, v))

\* insert(value): [M, cur, inserted]
map_insert(M, m, key, v) == insert_found(M, m, descend(M.h, M.root, Null, key), key, v)

\* A faulty variant: operator[] on a stored key resets its value to the default.
index_found_reset(M, m, d, key) ==
  IF d.found # Null THEN [M |-> Put(M, d.found, "val", DefaultVal), cur |-> d.found]
  ELSE link_new(M, m, d.parent, key, DefaultVal)

index_found(M, m, d, key) ==
  IF d.found # Null THEN [M |-> M, cur |-> d.found]
  ELSE link_new(M, m, d.parent, key, DefaultVal)

\* operator[](key): [M, cur], cur the node whose value is referred to.
map_index(M, m, key) == index_found(M, m, descend(M.h, M.root, Null, key), key)

\* erase, both children present, y = min_node(z->right): lines 434-443
erase_two_a(M, z, y) ==
  IF M.h[y].parent = z THEN PutIf(M, M.h[y].right, "parent", y)
  ELSE PutIf(Put(transplant(M, y, M.h[y].right), y, "right", M.h[z].right),
             M.h[z].right, "parent", y)

\* A faulty variant: z's left subtree is handed to y without its parent link.
erase_two_c_unparented(M, z, y) ==
  [M EXCEPT !.h[y].left = M.h[z].left, !.h[y].color = M.h[z].color]

\* lines 445-447: y->left = z->left; if (y->left) y->left->parent = y; y->color = z->color
erase_two_c(M, z, y) ==
  PutIf([M EXCEPT !.h[y].left = M.h[z].left, !.h[y].color = M.h[z].color],
        M.h[z].left, "parent", y)

erase_two(M, z, y) == erase_two_c(transplant(erase_two_a(M, z, y), z, y), z, y)

\* lines 423-448: takes z out of the tree
erase_unlink(M, z) ==
  IF M.h[z].left = Null THEN transplant(M, z, M.h[z].right)
  ELSE IF M.h[z].right = Null THEN transplant(M, z, M.h[z].left)
  ELSE erase_two(M, z, min_node(M.h, M.h[z].right))

\* x, x_parent and y_original_color of erase, read before z is unlinked
erase_x(h, z) ==
  IF h[z].left = Null THEN h[z].right
  ELSE IF h[z].right = Null THEN h[z].left
  ELSE h[min_node(h, h[z].right)].right

erase_x_parent(h, z) ==
  IF h[z].left = Null \/ h[z].right = Null THEN h[z].parent
  ELSE IF h[min_node(h, h[z].right)].parent = z THEN min_node(h, h[z].right)
  ELSE h[min_node(h, h[z].right)].parent

erase_y_original_color(h, z) ==
  IF h[z].left = Null \/ h[z].right = Null THEN h[z].color
  ELSE h[min_node(h, h[z].right)].color

\* A faulty variant: the node is deleted and node_count is left as it was.
erase_delete_uncounted(M, z) == [M EXCEPT !.h[z] = Free]

\* delete z; --node_count
erase_delete(M, z) == [M EXCEPT !.h[z] = Free, !.cnt = M.cnt - 1]

\* if (!y_original_color) erase_fix(x, x_parent); if (root) root->color = false
erase_tail(M, x, x_parent, y_original_color) ==
  root_black(IF ~y_original_color THEN erase_fix(M, x, x_parent) ELSE M)

\* A faulty variant: with two children the successor is removed in z's place, as in
\* the variant of erase that copies the successor's data into z, without the
\* copy.
map_erase_successor(M, z) ==
  LET y == IF M.h[z].left # Null /\ M.h[z].right # Null
           THEN min_node(M.h, M.h[z].right) ELSE z IN
  erase_tail(erase_delete(erase_unlink(M, y), y),
             erase_x(M.h, y), erase_x_parent(M.h, y), erase_y_original_color(M.h, y))

\* erase(pos) past its check, z = pos.cur
map_erase(M, z) ==
  erase_tail(erase_delete(erase_unlink(M, z), z),
             erase_x(M.h, z), erase_x_parent(M.h, z), erase_y_original_color(M.h, z))

\* clear()
map_clear(M) == [M EXCEPT !.h = clear_node(M.h, M.root), !.root = Null, !.cnt = 0]

\* root = clone_subtree(nullptr, other.root)
clone_root(c) == [c.M EXCEPT !.root = c.x]

\* operator=(other) when this # &other; oroot is other.root.
map_assign(M, m, oroot) == clone_root(clone_subtree(map_clear(M), m, Null, oroot))

\* A faulty variant: the copy takes the other map's nodes as its own.
map_copy_shallow(h, m, oroot) == Mk(h, oroot, Len(InOrder(h, oroot)))

\* map(const map &other)
map_copy(h, m, oroot) == clone_root(clone_subtree(Mk(h, Null, 0), m, Null, oroot))

\* --------------------------------------------------------------- cursors
\* iterator and const_iterator: [owner, cur]
Cursor(o, c) == [owner |-> o, cur |-> c]

RECURSIVE climb_right(_, _, _)
\* A faulty variant: next_node stops at the parent.
climb_right_once(h, x, p) == p

climb_right(h, x, p) ==
  IF p # Null /\ x = h[p].right THEN climb_right(h, p, h[p].parent) ELSE p

RECURSIVE climb_left(_, _, _)
climb_left(h, x, p) ==
  IF p # Null /\ x = h[p].left THEN climb_left(h, p, h[p].parent) ELSE p

next_node(h, x) ==
  IF x = Null THEN Null
  ELSE IF h[x].right # Null THEN min_node(h, h[x].right)
  ELSE climb_right(h, x, h[x].parent)

prev_node(h, x) ==
  IF x = Null THEN Null
  ELSE IF h[x].left # Null THEN max_node(h, h[x].left)
  ELSE climb_left(h, x, h[x].parent)

\* iterator::operator++: [c, err]
it_inc(h, c) ==
  IF c.owner = NoMap THEN [c |-> c, err |-> "invalid_iterator"]
  ELSE IF c.cur = Null THEN [c |-> c, err |-> "invalid_iterator"]
  ELSE [c |-> [c EXCEPT !.cur = next_node(h, c.cur)], err |-> "none"]

\* iterator::operator--: [c, err]
it_dec(h, r, c) ==
  IF c.owner = NoMap THEN [c |-> c, err |-> "invalid_iterator"]
  ELSE IF c.cur = Null THEN
    IF r[c.owner] = Null THEN [c |-> c, err |-> "invalid_iterator"]
    ELSE [c |-> [c EXCEPT !.cur = max_node(h, r[c.owner])], err |-> "none"]
  ELSE LET prv == prev_node(h, c.cur) IN
       IF prv = Null THEN [c |-> c, err |-> "invalid_iterator"]
       ELSE [c |-> [c EXCEPT !.cur = prv], err |-> "none"]

\* iterator::operator*: [err, ret]
it_deref(h, c) ==
  IF c.cur = Null THEN [err |-> "invalid_iterator", ret |-> "nothing"]
  ELSE [err |-> "none", ret |-> <<h[c.cur].key, h[c.cur].val>>]

\* iterator::operator-> is noexcept and does not test cur: on a null cur it
\* forms &cur->data from nullptr.  The outcomes: a wild address is handed
\* back, or the process is stopped; an exception cannot leave the function.
it_arrow(h, c) ==
  IF c.cur = Null
  THEN {[err |-> "none", ret |-> "wild"], [err |-> "crash", ret |-> "nothing"]}
  ELSE {[err |-> "none", ret |-> <<h[c.cur].key, h[c.cur].val>>]}

\* const_iterator::operator++
cit_inc(h, c) ==
  IF c.owner = NoMap THEN [c |-> c, err |-> "invalid_iterator"]
  ELSE IF c.cur = Null THEN [c |-> c, err |-> "invalid_iterator"]
  ELSE [c |-> [c EXCEPT !.cur = next_node(h, c.cur)], err |-> "none"]

\* const_iterator::operator--
cit_dec(h, r, c) ==
  IF c.owner = NoMap THEN [c |-> c, err |-> "invalid_iterator"]
  ELSE IF c.cur = Null THEN
    IF r[c.owner] = Null THEN [c |-> c, err |-> "invalid_iterator"]
    ELSE [c |-> [c EXCEPT !.cur = max_node(h, r[c.owner])], err |-> "none"]
  ELSE LET prv == prev_node(h, c.cur) IN
       IF prv = Null THEN [c |-> c, err |-> "invalid_iterator"]
       ELSE [c |-> [c EXCEPT !.cur = prv], err |-> "none"]

\* const_iterator::operator*
cit_deref(h, c) ==
  IF c.cur = Null THEN [err |-> "invalid_iterator", ret |-> "nothing"]
  ELSE [err |-> "none", ret |-> <<h[c.cur].key, h[c.cur].val>>]

\* const_iterator::operator->, as iterator::operator->
cit_arrow(h, c) ==
  IF c.cur = Null
  THEN {[err |-> "none", ret |-> "wild"], [err |-> "crash", ret |-> "nothing"]}
  ELSE {[err |-> "none", ret |-> <<h[c.cur].key, h[c.cur].val>>]}

\* A faulty variant: at() hands back a default value for a key that is absent.
map_at_unchecked(h, r, key) ==
  LET x == find_node(h, r, key) IN
  IF x = Null THEN [err |-> "none", ret |-> DefaultVal]
  ELSE [err |-> "none", ret |-> h[x].val]

\* at(key): [err, ret]
map_at(h, r, key) ==
  LET x == find_node(h, r, key) IN
  IF x = Null THEN [err |-> "index_out_of_bound", ret |-> "nothing"]
  ELSE [err |-> "none", ret |-> h[x].val]

\* operator[](key) const: return at(key)
map_index_const(h, r, key) == map_at(h, r, key)

\* count(key)
map_count(h, r, key) == IF find_node(h, r, key) # Null THEN 1 ELSE 0

\* find(key)
map_find(h, r, m, key) == Cursor(m, find_node(h, r, key))

\* begin() / cbegin()
map_begin(h, r, m) == Cursor(m, min_node(h, r))

\* end() / cend()
map_end(m) == Cursor(m, Null)

\* ----------------------------------------------------------- operations
This(m) == Mk(heap, root[m], node_count[m])

Commit(m, M) ==
  /\ heap' = M.h
  /\ root' = [root EXCEPT ![m] = M.root]
  /\ node_count' = [node_count EXCEPT ![m] = M.cnt]

Outcome(op, err, ret) == [op |-> op, err |-> err, ret |-> ret, fix |-> NoFix]

\* The outcome o of an operation that has left the tree M.
Traced(o, M) == [o EXCEPT !.fix = M.fix]

Fault(M) == IF M.ub THEN "ub" ELSE IF M.spin THEN "spin" ELSE "none"

size(m) == node_count[m]
empty(m) == node_count[m] = 0

\* The nodes reachable from x by child links.
RECURSIVE Reach(_, _)
Reach(h, x) ==
  IF x = Null THEN {} ELSE {x} \cup Reach(h, h[x].left) \cup Reach(h, h[x].right)

\* A cursor the client may use: never bound, or bound to a living map and at
\* its end or at a node that has not been deleted (spec.md 5: anything else is
\* undefined).
Usable(c) ==
  \/ c.owner = NoMap
  \/ c.owner \in alive /\ (c.cur = Null \/ c.cur \in Reach(heap, root[c.owner]))

\* The iterators a client can pass to erase.
Positions ==
  {Cursor(NoMap, Null)}
    \cup {map_end(o) : o \in alive}
    \cup UNION {{Cursor(o, c) : c \in Reach(heap, root[o])} : o \in alive}

\* The reference's operations on a finite function f.
RefHas(f, k) == k \in DOMAIN f
RefPut(f, k, v) == [x \in DOMAIN f \cup {k} |-> IF x = k THEN v ELSE f[x]]
RefDrop(f, k) == [x \in DOMAIN f \ {k} |-> f[x]]
RefEmpty == [x \in {} |-> DefaultVal]

InsertDone(m, r) ==
  /\ Commit(m, r.M)
  /\ it' = Cursor(m, r.cur)
  /\ last' = Traced(Outcome("insert", Fault(r.M), r.inserted), r.M)

InsertOp(m, k, v) ==
  /\ m \in alive
  /\ InsertDone(m, map_insert(This(m), m, k, v))
  /\ ref' = [ref EXCEPT ![m] = IF RefHas(@, k) THEN @ ELSE RefPut(@, k, v)]
  /\ UNCHANGED alive

\* m[k] read
IndexDone(m, r) ==
  /\ Commit(m, r.M)
  /\ last' = Traced(Outcome("index", Fault(r.M),
                            IF r.cur = Null THEN "nothing" ELSE r.M.h[r.cur].val),
                    r.M)

IndexOp(m, k) ==
  /\ m \in alive
  /\ IndexDone(m, map_index(This(m), m, k))
  /\ ref' = [ref EXCEPT ![m] = IF RefHas(@, k) THEN @ ELSE RefPut(@, k, DefaultVal)]
  /\ UNCHANGED <<alive, it>>

\* m[k] = v
IndexAssignDone(m, r, v) ==
  /\ Commit(m, PutIf(r.M, r.cur, "val", v))
  /\ last' = Traced(Outcome("index_assign", Fault(r.M), v), r.M)

IndexAssignOp(m, k, v) ==
  /\ m \in alive
  /\ IndexAssignDone(m, map_index(This(m), m, k), v)
  /\ ref' = [ref EXCEPT ![m] = RefPut(@, k, v)]
  /\ UNCHANGED <<alive, it>>

AtOp(m, k) ==
  /\ m \in alive
  /\ last' = Outcome("at", map_at(heap, root[m], k).err, map_at(heap, root[m], k).ret)
  /\ UNCHANGED <<ref, tree, alive, it>>

\* m[k] on a const map
ConstIndexOp(m, k) ==
  /\ m \in alive
  /\ last' = Outcome("cindex", map_index_const(heap, root[m], k).err,
                     map_index_const(heap, root[m], k).ret)
  /\ UNCHANGED <<ref, tree, alive, it>>

CountOp(m, k) ==
  /\ m \in alive
  /\ last' = Outcome("count", "none", map_count(heap, root[m], k))
  /\ UNCHANGED <<ref, tree, alive, it>>

FindOp(m, k) ==
  /\ m \in alive
  /\ it' = map_find(heap, root[m], m, k)
  /\ last' = Outcome("find", "none", "nothing")
  /\ UNCHANGED <<ref, tree, alive>>

BeginOp(m) ==
  /\ m \in alive
  /\ it' = map_begin(heap, root[m], m)
  /\ last' = Outcome("begin", "none", "nothing")
  /\ UNCHANGED <<ref, tree, alive>>

EndOp(m) ==
  /\ m \in alive
  /\ it' = map_end(m)
  /\ last' = Outcome("end", "none", "nothing")
  /\ UNCHANGED <<ref, tree, alive>>

\* iterator() / const_iterator()
DefaultCursorOp ==
  /\ it' = Cursor(NoMap, Null)
  /\ last' = Outcome("cursor", "none", "nothing")
  /\ UNCHANGED <<ref, tree, alive>>

\* ++it, it++
IncOp ==
  /\ Usable(it)
  /\ LET r == it_inc(heap, it) IN
       /\ it' = r.c
       /\ last' = Outcome("inc", r.err, "nothing")
  /\ UNCHANGED <<ref, tree, alive>>

\* --it, it--
DecOp ==
  /\ Usable(it)
  /\ LET r == it_dec(heap, root, it) IN
       /\ it' = r.c
       /\ last' = Outcome("dec", r.err, "nothing")
  /\ UNCHANGED <<ref, tree, alive>>

\* *it
DerefOp ==
  /\ Usable(it)
  /\ LET r == it_deref(heap, it) IN last' = Outcome("deref", r.err, r.ret)
  /\ UNCHANGED <<ref, tree, alive, it>>

\* it->
ArrowOp ==
  /\ Usable(it)
  /\ \E o \in it_arrow(heap, it) : last' = Outcome("arrow", o.err, o.ret)
  /\ UNCHANGED <<ref, tree, alive, it>>

\* The same four on a const_iterator.
CIncOp ==
  /\ Usable(it)
  /\ LET r == cit_inc(heap, it) IN
       /\ it' = r.c
       /\ last' = Outcome("cinc", r.err, "nothing")
  /\ UNCHANGED <<ref, tree, alive>>

CDecOp ==
  /\ Usable(it)
  /\ LET r == cit_dec(heap, root, it) IN
       /\ it' = r.c
       /\ last' = Outcome("cdec", r.err, "nothing")
  /\ UNCHANGED <<ref, tree, alive>>

CDerefOp ==
  /\ Usable(it)
  /\ LET r == cit_deref(heap, it) IN last' = Outcome("cderef", r.err, r.ret)
  /\ UNCHANGED <<ref, tree, alive, it>>

CArrowOp ==
  /\ Usable(it)
  /\ \E o \in cit_arrow(heap, it) : last' = Outcome("carrow", o.err, o.ret)
  /\ UNCHANGED <<ref, tree, alive, it>>

\* pos->second = v, (*pos).second = v: a write through a cursor at an entry
WriteThroughOp(pos, v) ==
  /\ pos \in Positions
  /\ pos.cur # Null
  /\ heap' = [heap EXCEPT ![pos.cur].val = v]
  /\ ref' = [ref EXCEPT ![pos.owner] = RefPut(@, heap[pos.cur].key, v)]
  /\ last' = Outcome("write", "none", v)
  /\ UNCHANGED <<root, node_count, alive, it>>

\* Which branch of erase removes node z.
EraseCase(h, z) ==
  IF h[z].left = Null THEN "no_left"
  ELSE IF h[z].right = Null THEN "no_right"
  ELSE IF h[min_node(h, h[z].right)].parent = z THEN "successor_child"
  ELSE "successor_deep"

EraseDone(m, M, case) ==
  /\ Commit(m, M)
  /\ last' = Traced(Outcome("erase", Fault(M), case), M)

\* A faulty variant: only the end position is refused.
erase_check_end_only(m, pos) == pos.cur = Null

\* if (pos.owner != this || pos.cur == nullptr) throw invalid_iterator()
erase_check(m, pos) == pos.owner # m \/ pos.cur = Null

\* What was wrong with a position that erase refused.
Refused(m, pos) ==
  IF pos.owner = NoMap THEN "unbound" ELSE IF pos.owner # m THEN "foreign" ELSE "end"

EraseOp(m, pos) ==
  /\ m \in alive
  /\ pos \in Positions
  /\ IF erase_check(m, pos)
     THEN /\ last' = Outcome("erase", "invalid_iterator", Refused(m, pos))
          /\ UNCHANGED <<tree, ref>>
     ELSE /\ EraseDone(m, map_erase(This(m), pos.cur), EraseCase(heap, pos.cur))
          /\ ref' = [ref EXCEPT ![m] = RefDrop(@, heap[pos.cur].key)]
  /\ UNCHANGED <<alive, it>>

ClearOp(m) ==
  /\ m \in alive
  /\ Commit(m, map_clear(This(m)))
  /\ ref' = [ref EXCEPT ![m] = RefEmpty]
  /\ last' = Outcome("clear", "none", "nothing")
  /\ UNCHANGED <<alive, it>>

\* m = o
AssignOp(m, o) ==
  /\ m \in alive /\ o \in alive
  /\ IF m = o THEN UNCHANGED tree
     ELSE Commit(m, map_assign(This(m), m, root[o]))
  /\ ref' = [ref EXCEPT ![m] = ref[o]]
  /\ last' = Outcome("assign", "none", "nothing")
  /\ UNCHANGED <<alive, it>>

\* map m(o)
CopyConstructOp(m, o) ==
  /\ m \notin alive /\ o \in alive
  /\ Commit(m, map_copy(heap, m, root[o]))
  /\ ref' = [ref EXCEPT ![m] = ref[o]]
  /\ alive' = alive \cup {m}
  /\ last' = Outcome("copy", "none", "nothing")
  /\ UNCHANGED it

\* map m
ConstructOp(m) ==
  /\ m \notin alive
  /\ alive' = alive \cup {m}
  /\ last' = Outcome("construct", "none", "nothing")
  /\ UNCHANGED <<ref, tree, it>>

\* ~map(): clear()
DestroyOp(m) ==
  /\ m \in alive
  /\ Commit(m, map_clear(This(m)))
  /\ ref' = [ref EXCEPT ![m] = RefEmpty]
  /\ alive' = alive \ {m}
  /\ last' = Outcome("destroy", "none", "nothing")
  /\ UNCHANGED it

\* ------------------------------------------------------- specifications
Init ==
  /\ heap = [a \in Addr |-> Free]
  /\ root = [m \in Maps |-> Null]
  /\ node_count = [m \in Maps |-> 0]
  /\ alive = {"A"}
  /\ it = Cursor(NoMap, Null)
  /\ last = Outcome("construct", "none", "nothing")
  /\ ref = [m \in Maps |-> RefEmpty]
  /\ ins = 0 /\ ers = 0 /\ made = 0 /\ dropped = 0 /\ ops = 0

Insert(m, k, v) == InsertOp(m, k, v) /\ UNCHANGED ghost
Index(m, k) == IndexOp(m, k) /\ UNCHANGED ghost
IndexAssign(m, k, v) == IndexAssignOp(m, k, v) /\ UNCHANGED ghost
At(m, k) == AtOp(m, k) /\ UNCHANGED ghost
ConstIndex(m, k) == ConstIndexOp(m, k) /\ UNCHANGED ghost
Count(m, k) == CountOp(m, k) /\ UNCHANGED ghost
Find(m, k) == FindOp(m, k) /\ UNCHANGED ghost
Begin(m) == BeginOp(m) /\ UNCHANGED ghost
End(m) == EndOp(m) /\ UNCHANGED ghost
DefaultCursor == DefaultCursorOp /\ UNCHANGED ghost
Inc == IncOp /\ UNCHANGED ghost
Dec == DecOp /\ UNCHANGED ghost
Deref == DerefOp /\ UNCHANGED ghost
Arrow == ArrowOp /\ UNCHANGED ghost
CInc == CIncOp /\ UNCHANGED ghost
CDec == CDecOp /\ UNCHANGED ghost
CDeref == CDerefOp /\ UNCHANGED ghost
CArrow == CArrowOp /\ UNCHANGED ghost
Erase(m, pos) == EraseOp(m, pos) /\ UNCHANGED ghost
WriteThrough(pos, v) == WriteThroughOp(pos, v) /\ UNCHANGED ghost
Clear(m) == ClearOp(m) /\ UNCHANGED ghost
Assign(m, o) == AssignOp(m, o) /\ UNCHANGED ghost
CopyConstruct(m, o) == CopyConstructOp(m, o) /\ UNCHANGED ghost
Construct(m) == ConstructOp(m) /\ UNCHANGED ghost
Destroy(m) == DestroyOp(m) /\ UNCHANGED ghost

\* The operations of a client that works on the maps of MS with the keys of
\* KS and the values of VS, and on the cursor it holds.
Client(MS, KS, VS) ==
  \/ \E m \in MS, k \in KS, v \in VS : Insert(m, k, v)
  \/ \E m \in MS, k \in KS : Index(m, k)
  \/ \E m \in MS, k \in KS, v \in VS : IndexAssign(m, k, v)
  \/ \E m \in MS, k \in KS : At(m, k)
  \/ \E m \in MS, k \in KS : ConstIndex(m, k)
  \/ \E m \in MS, k \in KS : Count(m, k)
  \/ \E m \in MS, k \in KS : Find(m, k)
  \/ \E m \in MS : Begin(m)
  \/ \E m \in MS : End(m)
  \/ MS # {} /\ DefaultCursor
  \/ MS # {} /\ Inc
  \/ MS # {} /\ Dec
  \/ MS # {} /\ Deref
  \/ MS # {} /\ Arrow
  \/ MS # {} /\ CInc
  \/ MS # {} /\ CDec
  \/ MS # {} /\ CDeref
  \/ MS # {} /\ CArrow
  \/ \E m \in MS, pos \in Positions : Erase(m, pos)
  \/ \E m \in MS : Clear(m)
  \/ \E m \in MS, o \in MS : Assign(m, o)

\* Spec: map "A" over the keys 1..MaxKey, values default-constructed.  Map "B"
\* is a copy of "A" (or an empty map) that is made, assigned from, assigned to
\* and destroyed while the client leaves "A" alone.
Resting == IF "B" \in alive THEN {} ELSE {"A"}

Next ==
  \/ Client(Resting, Keys, {DefaultVal})
  \/ CopyConstruct("B", "A")
  \/ Construct("B")
  \/ "B" \in alive /\ Assign("A", "B")
  \/ "B" \in alive /\ Assign("B", "A")
  \/ "B" \in alive /\ Destroy("B")

Spec == Init /\ [][Next]_vars

\* SpecPair: the maps "A" and "B" over the keys 1..PairKey, every operation
\* on either, "B" constructed, copy-constructed and destroyed at any time.
NextPair ==
  \/ Client(Maps, 1..PairKey, {DefaultVal})
  \/ CopyConstruct("B", "A")
  \/ Construct("B")
  \/ Destroy("B")

SpecPair == Init /\ [][NextPair]_vars

\* SpecVal: map "A" over the keys 1..ValKey with both values.
NextVal == Client({"A"}, 1..ValKey, Vals)

SpecVal == Init /\ [][NextVal]_vars

\* SpecDeep: map "A" over the keys 1..DeepKey under operator[], which links
\* a node and runs insert_fix as insert does, and erase, which runs erase_fix.
NextDeep ==
  \/ \E k \in 1..DeepKey : Index("A", k)
  \/ \E pos \in Positions : Erase("A", pos)

SpecDeep == Init /\ [][NextDeep]_vars

\* SpecCopy: the maps "A" and "B" over the keys 1..PairKey with both values,
\* under the operations that change a map: "B" is copy-constructed from "A"
\* and destroyed, either is assigned from the other or from itself, and
\* either is changed by insert, operator[] with a write, a write through a
\* cursor, erase and clear.
NextCopy ==
  \/ \E m \in Maps, k \in 1..PairKey, v \in Vals : Insert(m, k, v)
  \/ \E m \in Maps, k \in 1..PairKey, v \in Vals : IndexAssign(m, k, v)
  \/ \E pos \in Positions, v \in Vals : WriteThrough(pos, v)
  \/ \E m \in Maps, pos \in Positions : Erase(m, pos)
  \/ \E m \in Maps : Clear(m)
  \/ \E m \in Maps, o \in Maps : Assign(m, o)
  \/ CopyConstruct("B", "A")
  \/ Destroy("B")

SpecCopy == Init /\ [][NextCopy]_vars

\* ----------------------------------------------------------- properties
\* The nodes a full traversal visits: begin(), then ++ until end().
RECURSIVE WalkFrom(_, _, _)
WalkFrom(h, x, n) ==
  IF x = Null \/ n = 0 THEN <<>> ELSE <<x>> \o WalkFrom(h, next_node(h, x), n - 1)

Walk(h, r) == WalkFrom(h, min_node(h, r), NumCells + 1)

WalkKeys(h, r) == [i \in 1..Len(Walk(h, r)) |-> h[Walk(h, r)[i]].key]

WalkPairs(h, r) ==
  [i \in 1..Len(Walk(h, r)) |-> <<h[Walk(h, r)[i]].key, h[Walk(h, r)[i]].val>>]

Increasing(ks) == \A i \in 1..(Len(ks) - 1) : comp(ks[i], ks[i + 1])

\* The number of black nodes on every path from x to a null link, or -1 when
\* two paths differ.
RECURSIVE BlackHeight(_, _)
BlackJoin(l, r, red) ==
  IF l = -1 \/ r = -1 \/ l # r THEN -1 ELSE IF red THEN l ELSE l + 1

BlackHeight(h, x) ==
  IF x = Null THEN 0
  ELSE BlackJoin(BlackHeight(h, h[x].left), BlackHeight(h, h[x].right), h[x].color)

RootBlack(h, r) == r = Null \/ ~h[r].color

NoRedRed(h, r) ==
  \A n \in Reach(h, r) :
    h[n].color => is_black(h, h[n].left) /\ is_black(h, h[n].right)

RedBlack(h, r) == RootBlack(h, r) /\ NoRedRed(h, r) /\ BlackHeight(h, r) # -1

\* C1: after every mutating operation (insert, operator[], erase, clear,
\* copy-assignment) the tree of every map is a red-black tree: the root is
\* black or absent, no red node has a red child (so none has a red parent),
\* and all paths from the root to a null link hold equally many black nodes.
C1_RedBlack == \A m \in Maps : RedBlack(heap, root[m])

\* C1's case: an erase has completed and left a red-black tree of four nodes or
\* more, one of them red.
C1_Witness ==
  /\ last.op = "erase" /\ last.err = "none"
  /\ node_count["A"] >= 4
  /\ \E n \in Reach(heap, root["A"]) : heap[n].color
  /\ RedBlack(heap, root["A"])

BstOrdered(h, r) ==
  \A n \in Reach(h, r) :
    /\ \A l \in Reach(h, h[n].left) : comp(h[l].key, h[n].key)
    /\ \A g \in Reach(h, h[n].right) : comp(h[n].key, h[g].key)

\* C2: the traversal from begin() by ++ to end() visits every node of the map,
\* in strictly increasing key order; every node's left subtree holds smaller
\* keys and its right subtree larger ones.
C2_Ordered ==
  \A m \in Maps :
    /\ Increasing(WalkKeys(heap, root[m]))
    /\ {Walk(heap, root[m])[i] : i \in 1..Len(Walk(heap, root[m]))} = Reach(heap, root[m])
    /\ BstOrdered(heap, root[m])

\* C2's case: after an erase that moved the successor, the traversal of the
\* five or more keys left is increasing.
C2_Witness ==
  /\ last.op = "erase" /\ last.ret = "successor_deep"
  /\ Len(WalkKeys(heap, root["A"])) >= 5
  /\ Increasing(WalkKeys(heap, root["A"]))

\* The reference's pairs in increasing key order.
RECURSIVE RefPairs(_)
RefMin(f) == CHOOSE k \in DOMAIN f : \A x \in DOMAIN f : ~comp(x, k)
RefPairs(f) ==
  IF DOMAIN f = {} THEN <<>>
  ELSE <<<<RefMin(f), f[RefMin(f)]>>>> \o RefPairs(RefDrop(f, RefMin(f)))

FindAgrees(m, k) ==
  IF RefHas(ref[m], k)
  THEN /\ map_find(heap, root[m], m, k).owner = m
       /\ map_find(heap, root[m], m, k).cur \in Reach(heap, root[m])
       /\ heap[map_find(heap, root[m], m, k).cur].key = k
       /\ heap[map_find(heap, root[m], m, k).cur].val = ref[m][k]
       /\ map_count(heap, root[m], k) = 1
  ELSE /\ map_find(heap, root[m], m, k) = map_end(m)
       /\ map_count(heap, root[m], k) = 0

\* C3: the map refines the reference: the traversal yields the reference's
\* (key, value) pairs, find(k) is at the entry of k when the reference holds k
\* and is end() otherwise, count(k) is 1 or 0 accordingly.
C3_Refines ==
  \A m \in alive :
    /\ WalkPairs(heap, root[m]) = RefPairs(ref[m])
    /\ \A k \in Keys : FindAgrees(m, k)

\* C3's case: the map holds three entries or more, one of them with a value
\* that is not the default, after an erase that moved the successor.
C3_Witness ==
  /\ last.op = "erase" /\ last.ret = "successor_deep"
  /\ Len(WalkPairs(heap, root["A"])) >= 3
  /\ \E k \in DOMAIN ref["A"] : ref["A"][k] # DefaultVal
  /\ WalkPairs(heap, root["A"]) = RefPairs(ref["A"])

\* C4: size() is the number of nodes reachable from the root and the number
\* of cursors a full traversal visits; empty() holds exactly when that is 0.
C4_Size ==
  \A m \in Maps :
    /\ size(m) = Cardinality(Reach(heap, root[m]))
    /\ size(m) = Len(Walk(heap, root[m]))
    /\ empty(m) <=> Len(Walk(heap, root[m])) = 0

\* C4's case: "B" has just been copy-constructed from a map of four entries.
C4_Witness ==
  /\ last.op = "copy"
  /\ size("B") >= 4
  /\ size("B") = Len(Walk(heap, root["B"]))

\* No operation has dereferenced nullptr or failed to leave a fix-up loop.
NoFault == last.err \notin {"ub", "spin"}

\* ------------------------------------------------------- counted operations
\* SpecCount: at most MaxOps operations on "A", created empty, over the keys
\* 1..PairKey, each tallied by what its caller observes: i inserts that
\* returned inserted = true, e erases that completed, c entries created
\* otherwise, d entries discarded otherwise.
Tally(i, e, c, d) ==
  /\ ops < MaxOps
  /\ ops' = ops + 1
  /\ ins' = ins + i
  /\ ers' = ers + e
  /\ made' = made + c
  /\ dropped' = dropped + d

Bit(b) == IF b THEN 1 ELSE 0

CountedInsert(k) ==
  /\ InsertOp("A", k, DefaultVal)
  /\ Tally(Bit(last'.ret), 0, 0, 0)

CountedErase(pos) ==
  /\ EraseOp("A", pos)
  /\ Tally(0, Bit(last'.err = "none"), 0, 0)

\* operator[] creates an entry when count(k) was 0.
CountedIndex(k) ==
  /\ IndexOp("A", k)
  /\ Tally(0, 0, 1 - map_count(heap, root["A"], k), 0)

\* clear() discards size() entries.
CountedClear ==
  /\ ClearOp("A")
  /\ Tally(0, 0, 0, size("A"))

\* A = B discards A's size() entries and clones B's.
CountedAssign ==
  /\ "B" \in alive
  /\ AssignOp("A", "B")
  /\ Tally(0, 0, size("B"), size("A"))

NextCount ==
  \/ \E k \in 1..PairKey : CountedInsert(k)
  \/ \E pos \in Positions : CountedErase(pos)
  \/ \E k \in 1..PairKey : CountedIndex(k)
  \/ CountedClear
  \/ CountedAssign
  \/ CopyConstruct("B", "A")
  \/ Destroy("B")

SpecCount == Init /\ [][NextCount]_vars

\* C5 as stated: at every point size() is the number of insert calls that
\* returned inserted = true minus the number of erase calls that completed
\* without an error.
C5_AsStated == size("A") = ins - ers

\* C5, amended: at every point size() is the number of entries created (insert
\* calls that returned inserted = true, operator[] calls on an absent key,
\* entries cloned in by copy-assignment) minus the number of entries destroyed
\* (erase calls that completed without an error, entries discarded by clear()
\* or by copy-assignment).
C5_Amended == size("A") = (ins + made) - (ers + dropped)

\* C5's case: entries have been created by insert and by operator[], removed
\* by erase and discarded by clear(), and the map holds an entry.
C5_Witness ==
  /\ ins > 0 /\ made > 0 /\ ers > 0 /\ dropped > 0
  /\ size("A") > 0
  /\ size("A") = (ins + made) - (ers + dropped)

\* ------------------------------------------------------------ C6, C7
HasKey(h, r, k) == \E n \in Reach(h, r) : eq_key(h[n].key, k)

\* C6: insert(k, v) with k already stored returns inserted = false and a
\* cursor at the entry that was there, and changes no node (its value, links
\* and colour), nor the root, nor size().
C6_DuplicateInsert ==
  [][\A k \in 1..ValKey, v \in Vals :
       (last'.op = "insert" /\ Insert("A", k, v) /\ HasKey(heap, root["A"], k)) =>
         /\ last'.ret = FALSE
         /\ it'.owner = "A"
         /\ it'.cur \in Reach(heap, root["A"])
         /\ eq_key(heap[it'.cur].key, k)
         /\ UNCHANGED tree]_vars

\* C6's case: an insert was refused on a map of three entries or more, and
\* the cursor it returned is at an entry whose value is not the default.
C6_Witness ==
  /\ last.op = "insert" /\ last.err = "none"
  /\ last.ret = FALSE
  /\ size("A") >= 3
  /\ it.cur # Null /\ heap[it.cur].val # DefaultVal

\* C7: after erase(pos) completed, pos at key K: find(K) is end(), count(K) is
\* 0, at(K) throws index_out_of_bound, and size() is one less than before.
C7_Erased ==
  [][\A pos \in Positions :
       (/\ last'.op = "erase" /\ last'.err = "none"
        /\ pos.owner = "A" /\ pos.cur # Null
        /\ Erase("A", pos)) =>
         /\ map_find(heap', root'["A"], "A", heap[pos.cur].key) = map_end("A")
         /\ map_count(heap', root'["A"], heap[pos.cur].key) = 0
         /\ map_at(heap', root'["A"], heap[pos.cur].key).err = "index_out_of_bound"
         /\ node_count'["A"] = node_count["A"] - 1]_vars

\* C7's case: an erase of a node with two children completed and left four
\* entries or more.
C7_Witness ==
  /\ last.op = "erase" /\ last.err = "none"
  /\ last.ret \in {"successor_child", "successor_deep"}
  /\ size("A") >= 4

\* ------------------------------------------------------------ C8, C9
\* C8: erase(pos) with pos bound to another map (a copy of this one
\* included), bound to none, or at end() throws invalid_iterator and changes
\* no node of either map, no root and no size.
C8_EraseRefuses ==
  [][\A m \in Maps, pos \in Positions :
       (/\ last'.op = "erase"
        /\ pos.owner # m \/ pos.cur = Null
        /\ Erase(m, pos)) =>
         /\ last'.err = "invalid_iterator"
         /\ UNCHANGED tree]_vars

\* C8's case: erase was refused for a cursor of the other map while "B" held
\* the same two or more entries as "A".
C8_Witness ==
  /\ last.op = "erase" /\ last.err = "invalid_iterator"
  /\ last.ret = "foreign"
  /\ "B" \in alive
  /\ size("B") >= 2
  /\ WalkKeys(heap, root["A"]) = WalkKeys(heap, root["B"])

\* The node of the tree at r with the least key above k, and with the
\* greatest key below k; Null when there is none.
Above(h, r, k) == {x \in Reach(h, r) : comp(k, h[x].key)}
Below(h, r, k) == {x \in Reach(h, r) : comp(h[x].key, k)}

KeyNext(h, r, k) ==
  IF Above(h, r, k) = {} THEN Null
  ELSE CHOOSE x \in Above(h, r, k) : \A y \in Above(h, r, k) : ~comp(h[y].key, h[x].key)

KeyPrev(h, r, k) ==
  IF Below(h, r, k) = {} THEN Null
  ELSE CHOOSE x \in Below(h, r, k) : \A y \in Below(h, r, k) : ~comp(h[x].key, h[y].key)

\* A cursor at node n of "A" before a step is, after it, still at an entry of
\* "A" with the key and value it had; ++ takes it to the next key of the map
\* as it now is (end() after the last), -- to the previous key (and throws
\* before the first).
Survives(n) ==
  /\ n \in Reach(heap', root'["A"])
  /\ heap'[n].key = heap[n].key
  /\ heap'[n].val = heap[n].val
  /\ it_deref(heap', Cursor("A", n)) = [err |-> "none", ret |-> <<heap[n].key, heap[n].val>>]
  /\ it_inc(heap', Cursor("A", n)) =
       [c |-> Cursor("A", KeyNext(heap', root'["A"], heap[n].key)), err |-> "none"]
  /\ it_dec(heap', root', Cursor("A", n)) =
       IF KeyPrev(heap', root'["A"], heap[n].key) = Null
       THEN [c |-> Cursor("A", n), err |-> "invalid_iterator"]
       ELSE [c |-> Cursor("A", KeyPrev(heap', root'["A"], heap[n].key)), err |-> "none"]

\* C9: erase(pos) that completed invalidates the cursor at pos only: every
\* cursor at another entry of the map is still at that entry, with its key
\* and value, and ++ and -- on it follow the key order of the entries left;
\* so too when the erased node had two children and its successor took its
\* place.
C9_OthersSurvive ==
  [][\A pos \in Positions :
       (/\ last'.op = "erase" /\ last'.err = "none"
        /\ pos.owner = "A" /\ pos.cur # Null
        /\ Erase("A", pos)) =>
         \A n \in Reach(heap, root["A"]) \ {pos.cur} : Survives(n)]_vars

\* C9's case: the erased node had two children and its successor, deeper in
\* the right subtree, took its place; three entries are left, one of them
\* with a value that is not the default, and a cursor is held at one of them.
C9_Witness ==
  /\ last.op = "erase" /\ last.err = "none"
  /\ last.ret = "successor_deep"
  /\ size("A") = 3
  /\ \E n \in Reach(heap, root["A"]) : heap[n].val # DefaultVal
  /\ it.owner = "A" /\ it.cur \in Reach(heap, root["A"])

\* ---------------------------------------------------------------- C10
AtEnd(c) == c.owner \in alive /\ c.cur = Null
AtBegin(c) == c.owner \in alive /\ c.cur # Null /\ c.cur = min_node(heap, root[c.owner])

\* C10 as stated: dereferencing end() (by * or by ->, iterator or
\* const_iterator) throws invalid_iterator; ++ on end() throws; -- on begin()
\* of a non-empty map throws; -- on end() of an empty map throws; -- on end()
\* of a non-empty map gives the cursor at the greatest key; an operation that
\* throws leaves the cursor where it was.
C10_Boundaries ==
  [][/\ (last'.op \in {"deref", "cderef", "arrow", "carrow"} /\ AtEnd(it)) =>
          last'.err = "invalid_iterator"
     /\ (last'.op \in {"inc", "cinc"} /\ AtEnd(it)) =>
          last'.err = "invalid_iterator"
     /\ (last'.op \in {"dec", "cdec"} /\ AtBegin(it)) =>
          last'.err = "invalid_iterator"
     /\ (last'.op \in {"dec", "cdec"} /\ AtEnd(it) /\ empty(it.owner)) =>
          last'.err = "invalid_iterator"
     /\ (last'.op \in {"dec", "cdec"} /\ AtEnd(it) /\ ~empty(it.owner)) =>
          /\ last'.err = "none"
          /\ it' = Cursor(it.owner, KeyPrev(heap, root[it.owner], MaxKey + 1))
     /\ (/\ last'.op \in {"deref", "cderef", "arrow", "carrow", "inc", "cinc", "dec", "cdec"}
         /\ last'.err = "invalid_iterator") =>
          it' = it]_vars

\* ---------------------------------------------------------------- C11
Unbound(c) == c.owner = NoMap

\* C11 as stated: every operation on a default-constructed cursor, iterator
\* or const_iterator, throws invalid_iterator: * and ->, ++ and -- (the
\* postfix forms call the prefix ones), and erase when it is passed one.
C11_Unbound ==
  [][/\ (/\ last'.op \in {"deref", "cderef", "arrow", "carrow", "inc", "cinc", "dec", "cdec"}
         /\ Unbound(it)) =>
          last'.err = "invalid_iterator" /\ it' = it
     /\ \A m \in Maps :
          (last'.op = "erase" /\ Erase(m, Cursor(NoMap, Null))) =>
             last'.err = "invalid_iterator" /\ UNCHANGED tree]_vars

\* ---------------------------------------------------------------- C12
\* The value stored for key k in the tree at r.
Stored(h, r, k) == h[CHOOSE n \in Reach(h, r) : eq_key(h[n].key, k)].val

\* C12: at(key) changes no node, root or size; on a key with no entry it
\* throws index_out_of_bound, on a stored key it returns the stored value.
C12_At ==
  [][\A k \in 1..ValKey :
       (last'.op = "at" /\ At("A", k)) =>
         /\ UNCHANGED tree
         /\ IF HasKey(heap, root["A"], k)
            THEN last'.err = "none" /\ last'.ret = Stored(heap, root["A"], k)
            ELSE last'.err = "index_out_of_bound"]_vars

\* C12's case: at() has thrown on a map of three entries, one of which holds
\* a value that is not the default.
C12_Witness ==
  /\ last.op = "at" /\ last.err = "index_out_of_bound"
  /\ size("A") = 3
  /\ \E n \in Reach(heap, root["A"]) : heap[n].val # DefaultVal

\* ---------------------------------------------------------------- C13
\* The entries of the tree at r.
PairSet(h, r) == {<<h[n].key, h[n].val>> : n \in Reach(h, r)}

\* C13: operator[](key) on a stored key returns its value and changes no node,
\* root or size; on an absent key it adds the one entry (key, T()) and no other
\* change to the entries, size() grows by 1, count(key) becomes 1, and the tree
\* is again an ordered red-black tree.  at, find, count, begin, end, ++ and --
\* change no node, root or size.
C13_Index ==
  [][/\ \A k \in 1..ValKey :
          (last'.op = "index" /\ Index("A", k)) =>
            IF HasKey(heap, root["A"], k)
            THEN /\ UNCHANGED tree
                 /\ last'.ret = Stored(heap, root["A"], k)
            ELSE /\ last'.err = "none"
                 /\ last'.ret = DefaultVal
                 /\ PairSet(heap', root'["A"]) = PairSet(heap, root["A"]) \cup {<<k, DefaultVal>>}
                 /\ size("A")' = size("A") + 1
                 /\ map_count(heap', root'["A"], k) = 1
                 /\ RedBlack(heap', root'["A"])
                 /\ BstOrdered(heap', root'["A"])
     /\ last'.op \in {"at", "find", "count", "begin", "end", "inc", "dec", "cinc", "cdec"} =>
          UNCHANGED tree]_vars

\* C13's case: operator[] has created an entry, a red leaf that holds the
\* default value, in a map that held three, one with another value.
C13_Witness ==
  /\ last.op = "index" /\ last.err = "none"
  /\ last.fix.linked
  /\ size("A") = 4
  /\ \E n \in Reach(heap, root["A"]) : heap[n].val # DefaultVal
  /\ \E n \in Reach(heap, root["A"]) :
       /\ heap[n].val = DefaultVal
       /\ heap[n].left = Null /\ heap[n].right = Null /\ heap[n].color

\* ---------------------------------------------------------------- C14
\* C14 as stated: operator[] (on the map, through the reference it returns,
\* and on a const map), find and count never throw index_out_of_bound.
C14_NoMissingKey ==
  [][last'.op \in {"index", "index_assign", "cindex", "find", "count"} =>
       last'.err # "index_out_of_bound"]_vars

\* ---------------------------------------------------------------- C15
Other(m) == IF m = "A" THEN "B" ELSE "A"

\* A step leaves map o as it was: its root, its size and every node reachable
\* from its root (key, value, colour and links), hence its traversal, the
\* keys and values in it and their order.
Untouched(o) ==
  /\ root'[o] = root[o]
  /\ node_count'[o] = node_count[o]
  /\ \A n \in Reach(heap, root[o]) : heap'[n] = heap[n]

\* A step is a change of map m: insert, operator[] with a write, a write
\* through a cursor of m, erase, clear.  (Each operation is preceded by what
\* it implies of the step's outcome, which spares evaluating it otherwise.)
Mutates(m) ==
  \/ /\ last'.op = "insert" /\ it'.owner = m /\ it'.cur # Null
     /\ \E k \in {heap'[it'.cur].key} \cap (1..PairKey), v \in Vals : Insert(m, k, v)
  \/ /\ last'.op = "index_assign"
     /\ \E k \in 1..PairKey, v \in {last'.ret} :
          /\ HasKey(heap', root'[m], k)
          /\ Stored(heap', root'[m], k) = v
          /\ IndexAssign(m, k, v)
  \/ /\ last'.op = "write"
     /\ \E pos \in Positions, v \in {last'.ret} :
          /\ pos.owner = m /\ pos.cur # Null
          /\ heap'[pos.cur].val = v
          /\ WriteThrough(pos, v)
  \/ last'.op = "erase" /\ \E pos \in Positions : Erase(m, pos)
  \/ last'.op = "clear" /\ Clear(m)

\* A step makes map m a copy of the other map.
CopiesInto(m) ==
  \/ last'.op = "assign" /\ Assign(m, Other(m))
  \/ last'.op = "copy" /\ CopyConstruct(m, Other(m))

\* C15: "B" being a copy of "A" (copy-constructed, and either assigned from
\* the other since), every change of one map leaves the other's traversal,
\* values and size as they were, so does the copying for the map copied from,
\* and the two maps never share a node.
C15_Independent ==
  [][/\ \A m \in Maps : (Mutates(m) \/ CopiesInto(m)) => Untouched(Other(m))
     /\ Reach(heap', root'["A"]) \cap Reach(heap', root'["B"]) = {}]_vars

\* C15's case: both maps hold two entries or more, "B" a copy that has since
\* come to differ from "A", and an erase has just removed an entry of one.
C15_Witness ==
  /\ "B" \in alive
  /\ last.op = "erase" /\ last.err = "none"
  /\ size("A") >= 2 /\ size("B") >= 2
  /\ WalkPairs(heap, root["A"]) # WalkPairs(heap, root["B"])
  /\ WalkKeys(heap, root["A"]) = WalkKeys(heap, root["B"])

\* ---------------------------------------------------------------- C16
\* The subtree at a, whose parent link is to be pa, is a clone of the subtree
\* at b: other nodes, in the same shape, with the same keys, values and
\* colours, each with its parent link at its parent in the clone.
RECURSIVE CloneOf(_, _, _, _)
CloneOf(h, a, pa, b) ==
  IF b = Null THEN a = Null
  ELSE /\ a # Null /\ a # b
       /\ h[a].used
       /\ h[a].key = h[b].key /\ h[a].val = h[b].val /\ h[a].color = h[b].color
       /\ h[a].parent = pa
       /\ CloneOf(h, h[a].left, a, h[b].left)
       /\ CloneOf(h, h[a].right, a, h[b].right)

\* C16: when a step has copy-constructed or copy-assigned m from the other
\* map, whatever m held, m has the other's size and (key, value) traversal
\* and nothing else, and its tree is a clone of the other's: same shape and
\* colours, parent links at the cloned parents; m = m changes nothing.
C16_Clone ==
  [][\A m \in Maps :
       /\ CopiesInto(m) =>
            /\ size(m)' = size(Other(m))'
            /\ WalkPairs(heap', root'[m]) = WalkPairs(heap', root'[Other(m)])
            /\ CloneOf(heap', root'[m], Null, root'[Other(m)])
       /\ (last'.op = "assign" /\ Assign(m, m)) => UNCHANGED tree]_vars

\* C16's case: "B", into which the client had inserted, has just been
\* assigned from "A", which holds three entries, one with a value that is not
\* the default.
C16_Witness ==
  /\ last.op = "assign"
  /\ "B" \in alive
  /\ it.owner = "B" /\ it.cur # Null
  /\ size("B") = 3
  /\ \E n \in Reach(heap, root["B"]) : heap[n].val # DefaultVal
  /\ CloneOf(heap, root["B"], Null, root["A"])

\* ---------------------------------------------------------------- C17
\* ++ and -- at node n of map m, iterator and const_iterator alike, go to the
\* entries next and previous in key order, and undo each other.
Neighbours(m, n) ==
  /\ it_inc(heap, Cursor(m, n)) =
       [c |-> Cursor(m, KeyNext(heap, root[m], heap[n].key)), err |-> "none"]
  /\ it_dec(heap, root, Cursor(m, n)) =
       IF KeyPrev(heap, root[m], heap[n].key) = Null
       THEN [c |-> Cursor(m, n), err |-> "invalid_iterator"]
       ELSE [c |-> Cursor(m, KeyPrev(heap, root[m], heap[n].key)), err |-> "none"]
  /\ cit_inc(heap, Cursor(m, n)) = it_inc(heap, Cursor(m, n))
  /\ cit_dec(heap, root, Cursor(m, n)) = it_dec(heap, root, Cursor(m, n))
  /\ it_dec(heap, root, it_inc(heap, Cursor(m, n)).c) = [c |-> Cursor(m, n), err |-> "none"]
  /\ KeyPrev(heap, root[m], heap[n].key) # Null =>
       it_inc(heap, it_dec(heap, root, Cursor(m, n)).c) = [c |-> Cursor(m, n), err |-> "none"]

\* C17: in every map, ++ on a cursor at key k goes to the entry with the
\* smallest key greater than k, or to end() from the greatest key; -- goes to
\* the entry with the largest key smaller than k; ++ then --, and -- then ++
\* where there is a previous entry, come back to the entry; begin() is at the
\* smallest key.
C17_Neighbours ==
  \A m \in alive :
    /\ \A n \in Reach(heap, root[m]) : Neighbours(m, n)
    /\ map_begin(heap, root[m], m) = Cursor(m, KeyNext(heap, root[m], 0))

\* C17's case: in a map of five entries or more, ++ has taken the client's
\* cursor from a node without a right child up past that node's parent.
C17_Witness ==
  /\ last.op = "inc" /\ last.err = "none"
  /\ it.owner = "A" /\ it.cur \in Reach(heap, root["A"])
  /\ size("A") >= 5
  /\ KeyPrev(heap, root["A"], heap[it.cur].key) # Null
  /\ heap[KeyPrev(heap, root["A"], heap[it.cur].key)].right = Null
  /\ heap[KeyPrev(heap, root["A"], heap[it.cur].key)].parent # it.cur

\* ---------------------------------------------------------------- C18
\* C18: no operation has called left_rotate(x) without x->right or
\* right_rotate(x) without x->left, read the grandparent of a node that has
\* none, or otherwise used a null pointer; no iteration of erase_fix has met a
\* null x_parent or a null sibling; and no rotation has changed the keys of
\* the tree or their in-order sequence.
C18_Fixups ==
  /\ last.err # "ub"
  /\ ~last.fix.lax
  /\ ~last.fix.moved

\* C18's case: an erase has run erase_fix through two iterations or more and
\* two rotations or more, on a map that is left with four entries or more.
C18_Witness ==
  /\ last.op = "erase" /\ last.err = "none"
  /\ last.fix.iter >= 2 /\ last.fix.rot >= 2
  /\ ~last.fix.lax /\ ~last.fix.moved
  /\ size("A") >= 4

\* ---------------------------------------------------------------- C19
\* C19: every operation has completed or signalled an error with its fix-up
\* loop exited: neither insert_fix nor erase_fix has used up LoopCap
\* iterations, and every iteration after the first of a loop has started
\* strictly nearer to the root than the iteration before it.
C19_Terminates ==
  /\ last.err # "spin"
  /\ ~last.fix.stall
  /\ last.fix.iter < LoopCap

\* C19's case: operator[] has linked a node and insert_fix has gone round
\* twice or more, the last time from a node at depth 2 or deeper, and exited.
C19_Witness ==
  /\ last.op = "index" /\ last.err = "none"
  /\ last.fix.linked
  /\ last.fix.iter >= 2 /\ last.fix.at >= 2
  /\ ~last.fix.stall

\* ---------------------------------------------------------------- C20
\* The links of the tree at r: the root has no parent, each child names its
\* parent, no node is met twice going down, and no node met has been deleted.
Linked(h, r) ==
  /\ r # Null => h[r].parent = Null
  /\ \A n \in Reach(h, r) :
       /\ h[n].used
       /\ h[n].left # Null => h[h[n].left].parent = n
       /\ h[n].right # Null => h[h[n].right].parent = n
       /\ h[n].left # Null => h[n].left # h[n].right
  /\ Len(InOrder(h, r)) = Cardinality(Reach(h, r))

\* C20: after every operation, in every map, the root has a null parent, every
\* reachable node's children have it as parent, no node is reachable by two
\* paths, and every reachable node is one that has not been deleted.
C20_Linked == \A m \in Maps : Linked(heap, root[m])

\* C20's case: an erase has moved a successor that was not the erased node's
\* child into its place and deleted the node, and the four or more nodes
\* left, one of them with two children, are linked as the claim says.
C20_Witness ==
  /\ last.op = "erase" /\ last.ret = "successor_deep" /\ last.err = "none"
  /\ Cardinality(Reach(heap, root["A"])) >= 4
  /\ Linked(heap, root["A"])
  /\ \E n \in Reach(heap, root["A"]) : heap[n].left # Null /\ heap[n].right # Null

====
